---- MODULE Spec2Model ----
(***************************************************************************)
(* Model of pycato/generate_initial_grids.py: the ghost-layer policy, the  *)
(* axis partitioners, the four grid constructors and the layer painter.    *)
(* Every function is a pure transform, so the state machine is a call      *)
(* (drawn from bounded input sets) followed by its return or its raise.    *)
(* float64 values are modelled as exact rationals <<numerator,             *)
(* denominator>> in lowest terms; rounding error is outside the model.     *)
(* Python lists and numpy arrays are sequences; index i of the source is   *)
(* index i+1 here unless a definition says it keeps the 0-based index.     *)
(***************************************************************************)
EXTENDS Integers, Sequences, FiniteSets, TLC

VARIABLES pc, call, locals, result

vars == <<pc, call, locals, result>>

(***************************************************************************)
(* Bounds of the model.                                                    *)
(***************************************************************************)
MaxLayers == 3
MaxTotalCells == 4
MaxTotalThick == 4
MaxDist == 3

(***************************************************************************)
(* float64 arithmetic, exact.                                              *)
(***************************************************************************)
Abs(a) == IF a < 0 THEN -a ELSE a

RECURSIVE Gcd(_, _)
Gcd(a, b) == IF b = 0 THEN a ELSE Gcd(b, a % b)

Q(n, d) == LET g == Gcd(Abs(n), d) IN <<n \div g, d \div g>>

QInt(k) == <<k, 1>>

QAdd(a, b) == Q(a[1] * b[2] + b[1] * a[2], a[2] * b[2])

QSub(a, b) == Q(a[1] * b[2] - b[1] * a[2], a[2] * b[2])

QMul(a, b) == Q(a[1] * b[1], a[2] * b[2])

QDiv(a, b) ==
    IF b[1] > 0 THEN Q(a[1] * b[2], a[2] * b[1])
    ELSE Q(-(a[1] * b[2]), -(a[2] * b[1]))

QLt(a, b) == a[1] * b[2] < b[1] * a[2]

QLe(a, b) == a[1] * b[2] <= b[1] * a[2]

QZero == QInt(0)

\* np.round(v, 0).astype(int) for v >= 0: round half to even
QRound(a) ==
    LET fl == a[1] \div a[2]
        twice == 2 * (a[1] - fl * a[2])
    IN  IF twice < a[2] THEN fl
        ELSE IF twice > a[2] THEN fl + 1
        ELSE IF fl % 2 = 0 THEN fl ELSE fl + 1

Max(a, b) == IF a >= b THEN a ELSE b

(***************************************************************************)
(* Strings are sequences of characters.                                    *)
(***************************************************************************)
SQ == "SQUOTE"
DQ == "DQUOTE"

RECURSIVE LStrip(_, _)
LStrip(s, c) == IF s # <<>> /\ Head(s) = c THEN LStrip(Tail(s), c) ELSE s

RECURSIVE RStrip(_, _)
RStrip(s, c) ==
    IF s # <<>> /\ s[Len(s)] = c THEN RStrip(SubSeq(s, 1, Len(s) - 1), c) ELSE s

\* str.strip(c) for a single character c
Strip(s, c) == RStrip(LStrip(s, c), c)

minmod == <<"m", "i", "n", "m", "o", "d">>
superbee == <<"s", "u", "p", "e", "r", "b", "e", "e">>
van_leer == <<"v", "a", "n", "_", "l", "e", "e", "r">>
TVD3 == <<"T", "V", "D", "3">>
TVD5 == <<"T", "V", "D", "5">>
MLP3 == <<"M", "L", "P", "3">>
eMLP3 == <<"e", "M", "L", "P", "3">>
MLP5 == <<"M", "L", "P", "5">>
eMLP5 == <<"e", "M", "L", "P", "5">>

InList(v, list) == \E i \in 1..Len(list) : list[i] = v

(***************************************************************************)
(* get_n_ghost_layers_required                                             *)
(***************************************************************************)
valid_limiters ==
    <<minmod, superbee, van_leer, TVD3, TVD5, MLP3, eMLP3, MLP5, eMLP5>>

five_point_limiters_short == <<TVD5, MLP5>>

five_point_limiters == <<TVD5, MLP5, eMLP5>>

\* edge_interp = config["scheme"]["limiter"].strip("'").strip('"')
edge_interp(limiter) == Strip(Strip(limiter, SQ), DQ)

Raise(kind) == [err |-> kind]

\* raise Exception(msg), where the message tells two raises of one kind apart
RaiseMsg(kind, msg) == [err |-> kind, msg |-> msg]

Return(v) == [err |-> "none", value |-> v]

limiter_check_missing(name) == TRUE

limiter_check(name) == InList(name, valid_limiters)

\* config: [has_limiter |-> BOOLEAN, limiter |-> string]
get_n_ghost_layers_required(config) ==
    IF ~config.has_limiter THEN Raise("KeyError")
    ELSE LET name == edge_interp(config.limiter)
         IN  IF ~limiter_check(name) THEN Raise("Exception")
             ELSE IF InList(name, five_point_limiters) THEN Return(3)
             ELSE Return(2)

(***************************************************************************)
(* numpy helpers.                                                          *)
(***************************************************************************)
\* np.linspace(start, stop, num, endpoint=True)
linspace(start, stop, num) ==
    IF num = 1 THEN <<start>>
    ELSE LET step == QDiv(QSub(stop, start), QInt(num - 1))
         IN  [i \in 1..num |->
                 IF i = num THEN stop ELSE QAdd(start, QMul(QInt(i - 1), step))]

\* y_2d, x_2d = np.meshgrid(y, x): both of shape (len(x), len(y))
meshgrid_x(y, x) == [i \in 1..Len(x) |-> [j \in 1..Len(y) |-> x[i]]]

meshgrid_y(y, x) == [i \in 1..Len(x) |-> [j \in 1..Len(y) |-> y[j]]]

\* a.shape of a 2d array
shape(a) == <<Len(a), IF Len(a) = 0 THEN 0 ELSE Len(a[1])>>

\* np.ones(shape), np.zeros(shape)
full(shp, v) == [i \in 1..shp[1] |-> [j \in 1..shp[2] |-> v]]

ones_as_zeros(shp) == full(shp, 0)

\* np.ones(cell_shape)
ones(shp) == full(shp, 1)

\* a[:-1, :-1] + d
drop_last_plus(a, d) ==
    [i \in 1..(Len(a) - 1) |-> [j \in 1..(Len(a[1]) - 1) |-> QAdd(a[i][j], d)]]

\* np.diff(x)
diff(x) == [i \in 1..(Len(x) - 1) |-> QSub(x[i + 1], x[i])]

cell_shape_same_as_nodes(x_2d) == shape(x_2d)

\* cell_shape = (x_2d.shape[0] - 1, x_2d.shape[1] - 1)
cell_shape(x_2d) == <<shape(x_2d)[1] - 1, shape(x_2d)[2] - 1>>

(***************************************************************************)
(* make_uniform_grid                                                       *)
(***************************************************************************)
uniform_axis_one_short(lo, hi, n, g) ==
    LET dx == QDiv(QSub(hi, lo), QInt(n))
    IN  linspace(QSub(lo, QMul(QInt(g), dx)), QAdd(hi, QMul(QInt(g), dx)),
                 n + (g * 2))

\* np.linspace(start=lo - g*dx, stop=hi + g*dx, num=(n + 1) + (g * 2))
uniform_axis(lo, hi, n, g) ==
    LET dx == QDiv(QSub(hi, lo), QInt(n))
    IN  linspace(QSub(lo, QMul(QInt(g), dx)), QAdd(hi, QMul(QInt(g), dx)),
                 (n + 1) + (g * 2))

Half(d) == QDiv(d, QInt(2))

make_uniform_grid(n_cells, xrange, yrange, config) ==
    LET ghost == get_n_ghost_layers_required(config)
    IN  IF ghost.err # "none" THEN ghost
        ELSE LET n_ghost_layers == ghost.value
                 dx == QDiv(QSub(xrange[2], xrange[1]), QInt(n_cells[1]))
                 dy == QDiv(QSub(yrange[2], yrange[1]), QInt(n_cells[2]))
                 x == uniform_axis(xrange[1], xrange[2], n_cells[1], n_ghost_layers)
                 y == uniform_axis(yrange[1], yrange[2], n_cells[2], n_ghost_layers)
                 y_2d == meshgrid_y(y, x)
                 x_2d == meshgrid_x(y, x)
                 shp == cell_shape(x_2d)
             IN  Return([x |-> x_2d, y |-> y_2d,
                         rho |-> ones(shp), u |-> ones(shp),
                         v |-> ones(shp), p |-> ones(shp),
                         xc |-> drop_last_plus(x_2d, Half(dx)),
                         yc |-> drop_last_plus(y_2d, Half(dy)),
                         n_ghost_layers |-> n_ghost_layers])

(***************************************************************************)
(* make_1d_in_x_uniform_grid                                               *)
(***************************************************************************)
\* np.arange(-1 * g, g + 2) * dx - dx / 2.0
y_1d_uniform(g, dx) ==
    [i \in 1..(2 * g + 2) |-> QSub(QMul(QInt(i - 1 - g), dx), Half(dx))]

make_1d_in_x_uniform_grid(n_cells, limits, config) ==
    LET ghost == get_n_ghost_layers_required(config)
    IN  IF ghost.err # "none" THEN ghost
        ELSE LET n_ghost_layers == ghost.value
                 dx == QDiv(QSub(limits[2], limits[1]), QInt(n_cells))
                 x == uniform_axis(limits[1], limits[2], n_cells, n_ghost_layers)
                 y == y_1d_uniform(n_ghost_layers, dx)
                 y_2d == meshgrid_y(y, x)
                 x_2d == meshgrid_x(y, x)
                 shp == cell_shape(x_2d)
             IN  Return([x |-> x_2d, y |-> y_2d,
                         rho |-> ones(shp), u |-> ones(shp),
                         v |-> ones(shp), p |-> ones(shp),
                         xc |-> drop_last_plus(x_2d, Half(dx)),
                         yc |-> drop_last_plus(y_2d, Half(dx)),
                         n_ghost_layers |-> n_ghost_layers])

(***************************************************************************)
(* linear_spacing, constant_spacing                                        *)
(***************************************************************************)
Last(x) == x[Len(x)]

start_ge_max_dist == "Error: start >= max_dist"

start_check_strict(start, max_dist) == QLt(max_dist, start)

\* if start >= max_dist: raise
start_check(start, max_dist) == QLe(max_dist, start)

linear_spacing_pass_from_start(x, dx, scale) ==
    [x |-> Append(x, QAdd(x[1], dx)), dx |-> QMul(dx, scale)]

\* one pass of the while True loop up to its test: new_x = x[-1] + dx,
\* x.append(new_x), dx = dx * scale
linear_spacing_pass(x, dx, scale) ==
    [x |-> Append(x, QAdd(Last(x), dx)), dx |-> QMul(dx, scale)]

loop_break_at_max_dist(x, max_dist) == QLe(max_dist, Last(x))

\* if x[-1] > max_dist: break
loop_break(x, max_dist) == QLt(max_dist, Last(x))

\* the while True loop of linear_spacing: append, scale the step, test
RECURSIVE linear_spacing_loop(_, _, _, _)
linear_spacing_loop(x, dx, scale, max_dist) ==
    LET pass == linear_spacing_pass(x, dx, scale)
    IN  IF loop_break(pass.x, max_dist) THEN pass.x
        ELSE linear_spacing_loop(pass.x, pass.dx, scale, max_dist)

\* the loop has no other exit than its test: the nodes start + dx * (1 +
\* scale + scale^2 + ...) pass max_dist only if the step is positive and, for
\* a shrinking step, the limit start + dx / (1 - scale) lies beyond max_dist;
\* otherwise x grows by one entry a pass until memory is exhausted
loop_never_breaks(start, initial_dx, scale, max_dist) ==
    \/ QLe(initial_dx, QZero)
    \/ /\ QLt(scale, QInt(1))
       /\ QLe(QAdd(start, QDiv(initial_dx, QSub(QInt(1), scale))), max_dist)

\* x, dx_first, dx_last, ncells of the return statement
linear_spacing_return(x) ==
    [err |-> "none", x |-> x,
     dx_first |-> QSub(x[2], x[1]),
     dx_last |-> QSub(x[Len(x)], x[Len(x) - 1]),
     ncells |-> Len(x)]

linear_spacing(start, initial_dx, scale, max_dist) ==
    IF start_check(start, max_dist) THEN RaiseMsg("Exception", start_ge_max_dist)
    ELSE IF loop_never_breaks(start, initial_dx, scale, max_dist)
    THEN Raise("MemoryError")
    ELSE linear_spacing_return(linear_spacing_loop(<<start>>, initial_dx, scale, max_dist))

constant_spacing(start, max_dist, ncells) ==
    LET x == linspace(start, max_dist, ncells + 1)
    IN  [x |-> x, dx |-> QSub(x[2], x[1]), end |-> max_dist]

(***************************************************************************)
(* The layered builders: the partition of the x axis.                      *)
(***************************************************************************)
\* np.any(x)
any(x) == \E i \in 1..Len(x) : x[i] # QZero

first_layer_linear == "Linear spacing not set up for the first layer yet..."

is_first_layer_off_by_one(layer_id) == layer_id = 1

\* if layer_id == 0: raise
is_first_layer(layer_id) == layer_id = 0

\* the for loop over zip(layer_thicknesses, layer_n_cells, layer_spacing);
\* k is layer_id + 1
RECURSIVE layer_loop(_, _, _, _, _, _, _, _)
layer_loop(thick, n_cells, spacing, scale, k, cumulative_thickness, dx_last, total_x) ==
    IF k > Len(thick) THEN [err |-> "none", total_x |-> total_x]
    ELSE LET start_x == cumulative_thickness
             stop_x == QAdd(start_x, thick[k])
             cumulative == stop_x
         IN  IF spacing[k] = "linear"
             THEN IF is_first_layer(k - 1)
                  THEN RaiseMsg("Exception", first_layer_linear)
                  ELSE LET ls == linear_spacing(start_x, dx_last, scale, cumulative)
                       IN  IF ls.err # "none" THEN ls
                           ELSE layer_loop(thick, n_cells, spacing, scale, k + 1,
                                           cumulative, dx_last,
                                           IF any(ls.x) THEN Append(total_x, ls.x)
                                           ELSE total_x)
             ELSE LET cs == constant_spacing(start_x, stop_x, n_cells[k])
                  IN  layer_loop(thick, n_cells, spacing, scale, k + 1,
                                 cumulative, cs.dx,
                                 IF any(cs.x) THEN Append(total_x, cs.x)
                                 ELSE total_x)

RECURSIVE concatenate(_)
concatenate(arrays) ==
    IF arrays = <<>> THEN <<>> ELSE Head(arrays) \o concatenate(Tail(arrays))

QMin(S) == CHOOSE m \in S : \A o \in S : QLe(m, o)

RECURSIVE sorted(_)
sorted(S) == IF S = {} THEN <<>> ELSE <<QMin(S)>> \o sorted(S \ {QMin(S)})

RECURSIVE insertion_sorted(_)
insertion_sorted(x) ==
    IF x = <<>> THEN <<>>
    ELSE LET rest == insertion_sorted(Tail(x))
             lower == SelectSeq(rest, LAMBDA e : QLe(e, Head(x)))
             upper == SelectSeq(rest, LAMBDA e : QLt(Head(x), e))
         IN  lower \o <<Head(x)>> \o upper

sort_keep_duplicates(x) == insertion_sorted(x)

\* np.unique(x): the sorted distinct values
unique(x) == sorted({x[i] : i \in 1..Len(x)})

\* lines 219-251 (and 424-456): the per-layer arrays and the deduplicated
\* partition before ghost padding
x_partition(thick, n_cells, spacing, scale) ==
    LET looped == layer_loop(thick, n_cells, spacing, scale, 1, QZero, QZero, <<>>)
    IN  IF looped.err # "none" THEN looped
        ELSE IF looped.total_x = <<>> THEN Raise("ValueError")
        ELSE [err |-> "none", total_x |-> looped.total_x,
              x |-> unique(concatenate(looped.total_x))]

\* [x[0] - g*ldx, ..., x[0] - ldx] + list(x) + [x[-1] + rdx, ..., x[-1] + g*rdx]
add_ghost_nodes(x, g, ldx, rdx) ==
    [i \in 1..g |-> QSub(x[1], QMul(QInt(g - i + 1), ldx))]
    \o x
    \o [i \in 1..g |-> QAdd(Last(x), QMul(QInt(i), rdx))]

\* np.diff(x).min()
min_diff(x) == QMin({diff(x)[i] : i \in 1..(Len(x) - 1)})

(***************************************************************************)
(* The layered builders: index ranges of the layers and field painting.    *)
(* layer_idx, start_i, end_i and the slice bounds keep the source's        *)
(* 0-based (and negative) Python indices.                                  *)
(***************************************************************************)
\* np.cumsum(layer_thicknesses)
RECURSIVE cumsum_to(_, _)
cumsum_to(thick, k) == IF k = 0 THEN QZero ELSE QAdd(cumsum_to(thick, k - 1), thick[k])

cumsum(thick) == [k \in 1..Len(thick) |-> cumsum_to(thick, k)]

\* dx = np.diff(x) / 2.0 ; xc = x[:-1] + dx / 2.0
search_xc(x) == [i \in 1..(Len(x) - 1) |-> QAdd(x[i], Half(Half(diff(x)[i])))]

\* start_x, end_x of one layer (lines 307-315)
layer_bounds(layer_idx, n_layers, x, cum_layer_thickness) ==
    IF layer_idx = 0 THEN <<x[1], cum_layer_thickness[layer_idx + 1]>>
    ELSE IF layer_idx = n_layers - 1 THEN <<cum_layer_thickness[layer_idx], Last(x)>>
    ELSE <<cum_layer_thickness[layer_idx], cum_layer_thickness[layer_idx + 1]>>

\* loc = np.where((xc >= start_x) & (xc < end_x))[0]
where_in(xc, start_x, end_x) ==
    {i \in 0..(Len(xc) - 1) : QLe(start_x, xc[i + 1]) /\ QLt(xc[i + 1], end_x)}

SetMin(S) == CHOOSE m \in S : \A o \in S : m <= o

SetMax(S) == CHOOSE m \in S : \A o \in S : m >= o

first_and_last_or_nothing(loc) ==
    IF loc = {} THEN [err |-> "none", range |-> <<0, 0>>]
    ELSE [err |-> "none", range |-> <<SetMin(loc), SetMax(loc)>>]

\* start_i = loc[0]; end_i = loc[-1]: an index into an empty array raises
first_and_last(loc) ==
    IF loc = {} THEN Raise("IndexError")
    ELSE [err |-> "none", range |-> <<SetMin(loc), SetMax(loc)>>]

RECURSIVE idx_ranges_loop(_, _, _, _, _)
idx_ranges_loop(layer_idx, thick, x, xc, ranges) ==
    IF layer_idx = Len(thick) THEN [err |-> "none", ranges |-> ranges]
    ELSE LET b == layer_bounds(layer_idx, Len(thick), x, cumsum(thick))
             loc == where_in(xc, b[1], b[2])
             found == first_and_last(loc)
         IN  IF found.err # "none" THEN found
             ELSE idx_ranges_loop(layer_idx + 1, thick, x, xc,
                                  Append(ranges, found.range))

layer_cell_idx_ranges(thick, x) == idx_ranges_loop(0, thick, x, search_xc(x), <<>>)

Min(a, b) == IF a <= b THEN a ELSE b

\* a Python slice bound on an axis of length n, as a 0-based position
slice_pos(i, n) == IF i < 0 THEN Max(i + n, 0) ELSE Min(i, n)

\* arr[s:e, :] = v
assign_rows(arr, s, e, v) ==
    [i \in 1..Len(arr) |->
        IF slice_pos(s, Len(arr)) <= i - 1 /\ i - 1 < slice_pos(e, Len(arr))
        THEN [j \in 1..Len(arr[i]) |-> v] ELSE arr[i]]

\* arr[i, :] = v for i in {0, -1}
assign_row(arr, i, v) ==
    LET r == IF i < 0 THEN i + Len(arr) ELSE i
    IN  [k \in 1..Len(arr) |-> IF k - 1 = r THEN [j \in 1..Len(arr[k]) |-> v] ELSE arr[k]]

slice_end_at_range_end(layer_idx, n_ranges, layer) == layer[2]

\* e of lines 335-340
slice_end(layer_idx, n_ranges, layer) ==
    IF layer_idx = n_ranges THEN layer[2] ELSE -1

\* the loop of lines 334-346 for one field array
RECURSIVE paint_layers(_, _, _, _)
paint_layers(arr, layer_idx, ranges, values) ==
    IF layer_idx = Len(ranges) THEN arr
    ELSE LET layer == ranges[layer_idx + 1]
             s == layer[1]
             e == slice_end(layer_idx, Len(ranges), layer)
         IN  paint_layers(assign_rows(arr, s, e, values[layer_idx + 1]),
                          layer_idx + 1, ranges, values)

\* for i in [0, -1]: arr[i, :] = values[i]
paint_ghost(arr, values) ==
    assign_row(assign_row(arr, 0, values[1]), -1, Last(values))

paint_field(shp, ranges, values) ==
    paint_ghost(paint_layers(full(shp, 0), 0, ranges, values), values)

(***************************************************************************)
(* make_2d_layered_grid, make_1d_layered_grid                              *)
(***************************************************************************)
\* if not layer_spacing: layer_spacing = ["constant"] * len(layer_thicknesses)
default_spacing(layer_spacing, thick) ==
    IF layer_spacing = <<>> THEN [k \in 1..Len(thick) |-> "constant"]
    ELSE layer_spacing

\* n_y_cells = max(1, np.round(y_thickness / dy, 0).astype(int))
n_y_cells(y_thickness, dy) == Max(1, QRound(QDiv(y_thickness, dy)))

\* lines 254-255 and 276-300: ldx, rdx and the padded x axis (the branches for
\* 1, 2 and 3 ghost layers; get_n_ghost_layers_required gives no other count)
layered_x_2d(x, n_ghost_layers) ==
    add_ghost_nodes(x, n_ghost_layers, QSub(x[2], x[1]), QSub(Last(x), x[Len(x) - 1]))

\* line 467: x = np.array([x[0] - ldx] + list(x) + [x[-1] + rdx])
layered_x_1d(x, n_ghost_layers) ==
    add_ghost_nodes(x, 1, QSub(x[2], x[1]), QSub(Last(x), x[Len(x) - 1]))

\* lines 263-274: the y axis of the 2d layered grid
layered_y_2d(x, y_thickness, dy, n_ghost_layers) ==
    LET dy_used == IF dy.given THEN dy.value ELSE min_diff(x)
        g_dy == QMul(QInt(n_ghost_layers), dy_used)
    IN  linspace(QSub(QZero, g_dy), QAdd(y_thickness, g_dy),
                 (n_y_cells(y_thickness, dy_used) + 1) + (n_ghost_layers * 2))

\* line 464: y = np.array([-ldx, 0, ldx, ldx * 2]) - ldx / 2
layered_y_1d(x) ==
    LET ldx == QSub(x[2], x[1])
    IN  [i \in 1..4 |-> QSub(QMul(QInt(i - 2), ldx), Half(ldx))]

\* dx = (np.diff(x_2d[:, 0]) / 2.0)[0] ; dy = (np.diff(y_2d[0, :]) / 2.0)[0]
center_offset(axis) == Half(diff(axis)[1])

fields_shape_2d(x_2d) == cell_shape(x_2d)

\* rho = np.zeros((x.shape[0] - 1, 3))
fields_shape_1d(x) == <<Len(x) - 1, 3>>

\* lines 301-382 and 468-538: everything after the axes are known
assemble_layered(x, y, shp, c, n_ghost_layers) ==
    LET ranges == layer_cell_idx_ranges(c.layer_thicknesses, x)
    IN  IF ranges.err # "none" THEN ranges
        ELSE LET y_2d == meshgrid_y(y, x)
                 x_2d == meshgrid_x(y, x)
             IN  Return([x |-> x_2d, y |-> y_2d,
                         rho |-> paint_field(shp, ranges.ranges, c.layer_density),
                         u |-> paint_field(shp, ranges.ranges, c.layer_u),
                         v |-> paint_field(shp, ranges.ranges, c.layer_v),
                         p |-> paint_field(shp, ranges.ranges, c.layer_pressure),
                         xc |-> drop_last_plus(x_2d, center_offset(x)),
                         yc |-> drop_last_plus(y_2d, center_offset(y)),
                         n_ghost_layers |-> n_ghost_layers])

\* lines 214-251 and 419-456: the configuration is read and the x axis is
\* partitioned; the locals that the rest of the builder reads
layered_partition(c) ==
    LET ghost == get_n_ghost_layers_required(c.config)
    IN  IF ghost.err # "none" THEN ghost
        ELSE LET part == x_partition(c.layer_thicknesses, c.layer_n_cells,
                                     default_spacing(c.layer_spacing, c.layer_thicknesses),
                                     c.spacing_scale_factor)
             IN  IF part.err # "none" THEN part
                 ELSE [err |-> "none", n_ghost_layers |-> ghost.value,
                       total_x |-> part.total_x, x |-> part.x]

\* lines 253-382
make_2d_layered_grid_assemble(c, l) ==
    LET x == layered_x_2d(l.x, l.n_ghost_layers)
        y == layered_y_2d(l.x, c.y_thickness, c.dy, l.n_ghost_layers)
    IN  assemble_layered(x, y, fields_shape_2d(meshgrid_x(y, x)), c, l.n_ghost_layers)

\* lines 458-538
make_1d_layered_grid_assemble(c, l) ==
    LET x == layered_x_1d(l.x, l.n_ghost_layers)
        y == layered_y_1d(l.x)
    IN  assemble_layered(x, y, fields_shape_1d(x), c, l.n_ghost_layers)

(***************************************************************************)
(* write_initial_hdf5: the name of the file it writes, and its datasets.   *)
(***************************************************************************)
dot_h5 == <<".", "h", "5">>

dot_hdf5 == <<".", "h", "d", "f", "5">>

\* str.endswith(suffix)
endswith(s, suffix) ==
    /\ Len(suffix) <= Len(s)
    /\ SubSeq(s, Len(s) - Len(suffix) + 1, Len(s)) = suffix

\* if not filename.endswith(".h5") or not filename.endswith(".hdf5")
needs_suffix(filename) == ~endswith(filename, dot_h5) \/ ~endswith(filename, dot_hdf5)

\* the datasets created, with the unit attribute of each
datasets ==
    {<<"/n_ghost_layers", "">>, <<"/x", "cm">>, <<"/y", "cm">>, <<"/rho", "g/cc">>,
     <<"/u", "cm/s">>, <<"/v", "cm/s">>, <<"/p", "barye">>}

write_initial_hdf5(filename) ==
    LET name == IF needs_suffix(filename) THEN filename \o dot_h5 ELSE filename
    IN  Return([filename |-> name, datasets |-> datasets])

(***************************************************************************)
(* The calls the model makes: bounded input sets.                          *)
(***************************************************************************)
TVD4 == <<"T", "V", "D", "4">>
tvd3_lower == <<"t", "v", "d", "3">>
MLP == <<"M", "L", "P">>

LimiterNames ==
    {valid_limiters[i] : i \in 1..Len(valid_limiters)} \cup {TVD4, tvd3_lower, MLP, <<>>}

\* the quoting around a name: <<prefix, suffix>>
Quotings ==
    {<< <<>>, <<>> >>, << <<SQ>>, <<SQ>> >>, << <<DQ>>, <<DQ>> >>,
     << <<SQ, DQ>>, <<DQ, SQ>> >>, << <<DQ, SQ>>, <<SQ, DQ>> >>,
     << <<SQ>>, <<>> >>}

LimiterStrings == {q[1] \o n \o q[2] : n \in LimiterNames, q \in Quotings}

Config(limiter) == [has_limiter |-> TRUE, limiter |-> limiter]

NoLimiterConfig == [has_limiter |-> FALSE, limiter |-> <<>>]

PolicyConfigs == {Config(l) : l \in LimiterStrings} \cup {NoLimiterConfig}

GoodConfigs == {Config(TVD3), Config(<<SQ>> \o eMLP5 \o <<SQ>>)}

BadConfigs == {Config(TVD4), NoLimiterConfig}

Limits ==
    {<<Q(-1, 2), QInt(0)>>, <<Q(-1, 2), QInt(1)>>, <<QInt(0), QInt(1)>>}

\* one layer: thickness, cell count, spacing
LayerChoices(cells_left, thick_left) ==
    {[t |-> t, n |-> n, sp |-> "constant"] : t \in 1..thick_left, n \in 1..cells_left}
    \cup {[t |-> t, n |-> 1, sp |-> "linear"] : t \in 1..thick_left}

\* the layer sequences of at most k layers within the cell and thickness budgets
RECURSIVE LayerSeqs(_, _, _)
LayerSeqs(k, cells_left, thick_left) ==
    IF k = 0 \/ cells_left = 0 \/ thick_left = 0 THEN {<<>>}
    ELSE {<<>>} \cup
         UNION {{<<c>> \o rest : rest \in LayerSeqs(k - 1, cells_left - c.n, thick_left - c.t)} :
                c \in LayerChoices(cells_left, thick_left)}

Layerings == LayerSeqs(MaxLayers, MaxTotalCells, MaxTotalThick) \ {<<>>}

\* layers of one cell each, some of them of thickness zero
ThinLayer == {[t |-> t, n |-> 1, sp |-> sp] : t \in 0..1, sp \in {"constant", "linear"}}

ThinLayerings ==
    {ls \in UNION {[1..k -> ThinLayer] : k \in 1..MaxLayers} :
        \E k \in 1..Len(ls) : ls[k].t = 0}

OneLayer == {<<[t |-> 1, n |-> 2, sp |-> "constant"]>>}

\* the material state of layer k under palette m: all distinct and nonzero
\* (m = 1), or a gas at rest with a vacuum first layer (m = 2)
Material(m, k) ==
    IF m = 1 THEN [rho |-> k, u |-> 10 + k, v |-> 20 + k, p |-> 30 + k]
    ELSE [rho |-> k - 1, u |-> 0, v |-> 0, p |-> 1]

Palettes == {1, 2}

\* layer_spacing: the list, or None (here <<>>) when every layer is constant
SpacingArgs(ls) ==
    LET explicit == [k \in 1..Len(ls) |-> ls[k].sp]
    IN  IF \A k \in 1..Len(ls) : ls[k].sp = "constant" THEN {explicit, <<>>}
        ELSE {explicit}

\* spacing_scale_factor: growth by half, or none; one value when no layer reads it
ScaleArgs(ls) ==
    IF \E k \in 1..Len(ls) : ls[k].sp = "linear" THEN {Q(3, 2), QInt(1)}
    ELSE {Q(3, 2)}

LayerArgs(fn, ls, m, sp, sc, c) ==
    [fn |-> fn, config |-> c,
     layer_thicknesses |-> [k \in 1..Len(ls) |-> QInt(ls[k].t)],
     layer_n_cells |-> [k \in 1..Len(ls) |-> ls[k].n],
     layer_density |-> [k \in 1..Len(ls) |-> Material(m, k).rho],
     layer_u |-> [k \in 1..Len(ls) |-> Material(m, k).u],
     layer_v |-> [k \in 1..Len(ls) |-> Material(m, k).v],
     layer_pressure |-> [k \in 1..Len(ls) |-> Material(m, k).p],
     layer_spacing |-> sp,
     spacing_scale_factor |-> sc]

NoDy == [given |-> FALSE, value |-> QZero]

YArgs ==
    {[y_thickness |-> QInt(1), dy |-> NoDy],
     [y_thickness |-> QInt(2), dy |-> NoDy],
     [y_thickness |-> QInt(1), dy |-> [given |-> TRUE, value |-> Q(1, 2)]]}

PolicyCall ==
    \E c \in PolicyConfigs :
        call = [fn |-> "get_n_ghost_layers_required", config |-> c]

UniformCallOver(configs, counts, limits) ==
    \E nx \in counts, ny \in counts, xr \in limits, yr \in limits, c \in configs :
        call = [fn |-> "make_uniform_grid", n_cells |-> <<nx, ny>>, xrange |-> xr,
                yrange |-> yr, config |-> c]

Uniform1dCallOver(configs, counts, limits) ==
    \E n \in counts, l \in limits, c \in configs :
        call = [fn |-> "make_1d_in_x_uniform_grid", n_cells |-> n, limits |-> l,
                config |-> c]

Layered1dCallOver(configs, layerings, palettes) ==
    \E ls \in layerings, m \in palettes, c \in configs :
        \E sp \in SpacingArgs(ls), sc \in ScaleArgs(ls) :
            call = LayerArgs("make_1d_layered_grid", ls, m, sp, sc, c)

Layered2dCallOver(configs, layerings, palettes, yargs) ==
    \E ls \in layerings, m \in palettes, c \in configs, ya \in yargs :
        \E sp \in SpacingArgs(ls), sc \in ScaleArgs(ls) :
            call = LayerArgs("make_2d_layered_grid", ls, m, sp, sc, c) @@ ya

\* linear_spacing(start, initial_dx, scale, max_dist) called on its own: steps
\* of zero, a half and one, shrinking, constant and growing
LinearSpacingCall ==
    \E start \in {0, 1}, max_dist \in 0..MaxDist :
        \E initial_dx \in {QZero, Q(1, 2), QInt(1)},
           scale \in {Q(1, 2), QInt(1), Q(3, 2), QInt(2)} :
            call = [fn |-> "linear_spacing", start |-> QInt(start),
                    initial_dx |-> initial_dx, scale |-> scale,
                    max_dist |-> QInt(max_dist)]

FileStems == {<<>>, <<"s">>, <<"s", ".", "h">>}

FileEndings == {<<>>, dot_h5, dot_hdf5, <<"h", "5">>, <<".", "h", "5", "x">>}

\* write_initial_hdf5(filename, initial_condition_dict): names such as "s",
\* "s.h5", "s.hdf5", ".h5", "s.hdf5.h5", "sh5", "s.h5x"
WriteCall ==
    \E stem \in FileStems, mid \in FileEndings, ending \in FileEndings :
        call = [fn |-> "write_initial_hdf5", filename |-> stem \o mid \o ending]

\* a bad configuration makes every constructor raise before it reads its
\* other arguments, so those calls carry one argument set each
AnyCall ==
    \/ PolicyCall
    \/ UniformCallOver(GoodConfigs, 1..MaxTotalCells, Limits)
    \/ UniformCallOver(BadConfigs, {2}, {<<QInt(0), QInt(1)>>})
    \/ Uniform1dCallOver(GoodConfigs, 1..MaxTotalCells, Limits)
    \/ Uniform1dCallOver(BadConfigs, {2}, {<<QInt(0), QInt(1)>>})
    \/ Layered1dCallOver(GoodConfigs, Layerings, Palettes)
    \/ Layered1dCallOver(BadConfigs, OneLayer, {1})
    \/ Layered2dCallOver(GoodConfigs, Layerings, Palettes, YArgs)
    \/ Layered2dCallOver(BadConfigs, OneLayer, {1}, {[y_thickness |-> QInt(1), dy |-> NoDy]})
    \/ Layered1dCallOver({Config(TVD3)}, ThinLayerings, {1})
    \/ Layered2dCallOver({Config(TVD3)}, ThinLayerings, {1},
                         {[y_thickness |-> QInt(1), dy |-> NoDy]})
    \/ LinearSpacingCall
    \/ WriteCall

(***************************************************************************)
(* The state machine: a call, then its return or its raise.                *)
(***************************************************************************)
Pending == [err |-> "pending"]

NoLocals == [err |-> "pending"]

Init == /\ pc = "called"
        /\ AnyCall
        /\ locals = NoLocals
        /\ result = Pending

Finish(r) == /\ result' = r
             /\ pc' = IF r.err = "none" THEN "returned" ELSE "raised"
             /\ UNCHANGED <<call, locals>>

\* the partition step of a layered builder: it raises, or leaves its locals
Partitioned(l) ==
    IF l.err = "none"
    THEN /\ locals' = l
         /\ pc' = "partitioned"
         /\ UNCHANGED <<call, result>>
    ELSE /\ result' = l
         /\ pc' = "raised"
         /\ UNCHANGED <<call, locals>>

CallGetNGhostLayersRequired ==
    /\ pc = "called"
    /\ call.fn = "get_n_ghost_layers_required"
    /\ Finish(get_n_ghost_layers_required(call.config))

CallMakeUniformGrid ==
    /\ pc = "called"
    /\ call.fn = "make_uniform_grid"
    /\ Finish(make_uniform_grid(call.n_cells, call.xrange, call.yrange, call.config))

CallMake1dInXUniformGrid ==
    /\ pc = "called"
    /\ call.fn = "make_1d_in_x_uniform_grid"
    /\ Finish(make_1d_in_x_uniform_grid(call.n_cells, call.limits, call.config))

Make2dLayeredGridPartition ==
    /\ pc = "called"
    /\ call.fn = "make_2d_layered_grid"
    /\ Partitioned(layered_partition(call))

Make2dLayeredGridAssemble ==
    /\ pc = "partitioned"
    /\ call.fn = "make_2d_layered_grid"
    /\ Finish(make_2d_layered_grid_assemble(call, locals))

Make1dLayeredGridPartition ==
    /\ pc = "called"
    /\ call.fn = "make_1d_layered_grid"
    /\ Partitioned(layered_partition(call))

Make1dLayeredGridAssemble ==
    /\ pc = "partitioned"
    /\ call.fn = "make_1d_layered_grid"
    /\ Finish(make_1d_layered_grid_assemble(call, locals))

\* the passes a call of linear_spacing is followed for; a call whose loop
\* breaks at all breaks within (max_dist - start) / initial_dx + 1 passes
MaxPasses == 2 * MaxDist + 2

\* lines 140-144: dx = initial_dx, x = [start], and the test of start
LinearSpacingEnter ==
    /\ pc = "called"
    /\ call.fn = "linear_spacing"
    /\ IF start_check(call.start, call.max_dist)
       THEN Finish(RaiseMsg("Exception", start_ge_max_dist))
       ELSE /\ locals' = [err |-> "none", x |-> <<call.start>>, dx |-> call.initial_dx]
            /\ pc' = "looping"
            /\ UNCHANGED <<call, result>>

\* lines 145-151: one pass of the while True loop and its test
LinearSpacingPass ==
    /\ pc = "looping"
    /\ Len(locals.x) <= MaxPasses
    /\ LET pass == linear_spacing_pass(locals.x, locals.dx, call.scale)
       IN  /\ locals' = [locals EXCEPT !.x = pass.x, !.dx = pass.dx]
           /\ pc' = IF loop_break(pass.x, call.max_dist) THEN "broke" ELSE "looping"
    /\ UNCHANGED <<call, result>>

\* lines 152-155
LinearSpacingReturn ==
    /\ pc = "broke"
    /\ Finish(Return(linear_spacing_return(locals.x)))

CallWriteInitialHdf5 ==
    /\ pc = "called"
    /\ call.fn = "write_initial_hdf5"
    /\ Finish(write_initial_hdf5(call.filename))

Next == \/ CallGetNGhostLayersRequired
        \/ CallMakeUniformGrid
        \/ CallMake1dInXUniformGrid
        \/ Make2dLayeredGridPartition
        \/ Make2dLayeredGridAssemble
        \/ Make1dLayeredGridPartition
        \/ Make1dLayeredGridAssemble
        \/ LinearSpacingEnter
        \/ LinearSpacingPass
        \/ LinearSpacingReturn
        \/ CallWriteInitialHdf5

Spec == Init /\ [][Next]_vars

\* linear_spacing called on its own and run to its end: the interpreter goes
\* on to the next statement of the one thread for as long as there is one
LinearSpacingInit ==
    /\ pc = "called"
    /\ LinearSpacingCall
    /\ locals = NoLocals
    /\ result = Pending

LinearSpacingNext ==
    \/ LinearSpacingEnter
    \/ LinearSpacingPass
    \/ LinearSpacingReturn

LinearSpacingSpec ==
    LinearSpacingInit /\ [][LinearSpacingNext]_vars /\ WF_vars(LinearSpacingNext)

(***************************************************************************)
(* What the properties below read off a state.                             *)
(***************************************************************************)
\* the limiter sets as the specification lists them
RecognizedLimiters ==
    {<<"m", "i", "n", "m", "o", "d">>, <<"s", "u", "p", "e", "r", "b", "e", "e">>,
     <<"v", "a", "n", "_", "l", "e", "e", "r">>, <<"T", "V", "D", "3">>,
     <<"T", "V", "D", "5">>, <<"M", "L", "P", "3">>, <<"e", "M", "L", "P", "3">>,
     <<"M", "L", "P", "5">>, <<"e", "M", "L", "P", "5">>}

FivePointLimiters ==
    {<<"T", "V", "D", "5">>, <<"M", "L", "P", "5">>, <<"e", "M", "L", "P", "5">>}

\* name, bare or wrapped in one pair of single or of double quotes
Quoted(name) == {name, <<SQ>> \o name \o <<SQ>>, <<DQ>> \o name \o <<DQ>>}

Repeat(c, n) == [i \in 1..n |-> c]

\* the strings that name a recognized limiter once the single quotes and then
\* the double quotes at both ends are taken off
NamesRecognized(raw) ==
    \E name \in RecognizedLimiters :
        /\ Len(name) <= Len(raw)
        /\ LET extra == Len(raw) - Len(name)
           IN  \E a \in 0..extra :
                   \E b \in 0..(extra - a) :
                       \E c \in 0..(extra - a - b) :
                           raw = Repeat(SQ, a) \o Repeat(DQ, b) \o name
                                 \o Repeat(DQ, c) \o Repeat(SQ, extra - a - b - c)

Finished == pc \in {"returned", "raised"}

IsLayered == call.fn \in {"make_2d_layered_grid", "make_1d_layered_grid"}

IsUniform == call.fn \in {"make_uniform_grid", "make_1d_in_x_uniform_grid"}

IsGrid == IsLayered \/ IsUniform

\* the functions that read the limiter from the configuration
ReadsConfig == IsGrid \/ call.fn = "get_n_ghost_layers_required"

GridReturned == IsGrid /\ pc = "returned"

grid == result.value

\* the node axes of the returned meshes
XAxis == [i \in 1..Len(grid.x) |-> grid.x[i][1]]

YAxis == grid.y[1]

Rectangular(a, shp) == Len(a) = shp[1] /\ \A i \in 1..Len(a) : Len(a[i]) = shp[2]

RECURSIVE SumSeq(_)
SumSeq(q) == IF q = <<>> THEN 0 ELSE Head(q) + SumSeq(Tail(q))

RECURSIVE QSumSeq(_)
QSumSeq(q) == IF q = <<>> THEN QZero ELSE QAdd(Head(q), QSumSeq(Tail(q)))

(***************************************************************************)
(* C1                                                                      *)
(***************************************************************************)
\* C1: for a recognized limiter name, bare or wrapped in single or double
\* quotes, get_n_ghost_layers_required returns 2 or 3, and 3 exactly for
\* TVD5, MLP5 and eMLP5.
C1_GhostCountByLimiter ==
    \A name \in RecognizedLimiters :
        (/\ call.fn = "get_n_ghost_layers_required"
         /\ Finished
         /\ call.config.has_limiter
         /\ call.config.limiter \in Quoted(name))
        => /\ pc = "returned"
           /\ result.value \in {2, 3}
           /\ (result.value = 3 <=> name \in FivePointLimiters)

C1_Witness ==
    /\ call.fn = "get_n_ghost_layers_required"
    /\ call.config.has_limiter
    /\ call.config.limiter = <<DQ, "e", "M", "L", "P", "5", DQ>>
    /\ pc = "returned"
    /\ result.value = 3

(***************************************************************************)
(* C2                                                                      *)
(***************************************************************************)
\* C2: with a limiter name outside the recognized set (or no limiter entry),
\* get_n_ghost_layers_required raises and returns no count, and each of the
\* four grid constructors raises and returns no grid.
C2_UnknownLimiterRaises ==
    (/\ pc # "called"
     /\ ReadsConfig
     /\ ~(call.config.has_limiter /\ NamesRecognized(call.config.limiter)))
    => /\ pc = "raised"
       /\ result.err # "none"
       /\ "value" \notin DOMAIN result
       /\ locals = NoLocals

C2_Witness ==
    /\ call.fn = "make_2d_layered_grid"
    /\ call.config.has_limiter
    /\ call.config.limiter = <<"T", "V", "D", "4">>
    /\ pc = "raised"
    /\ result.err = "Exception"

(***************************************************************************)
(* C3                                                                      *)
(***************************************************************************)
LowGhostNodes == Cardinality({i \in 1..Len(XAxis) : QLt(XAxis[i], locals.x[1])})

HighGhostNodes == Cardinality({i \in 1..Len(XAxis) : QLt(Last(locals.x), XAxis[i])})

\* C3: a layered grid has n_ghost_layers (the value derived from the scheme
\* configuration and returned with the grid) ghost nodes before the first
\* partition node and as many after the last.
C3_LayeredGhostNodeCount ==
    (IsLayered /\ pc = "returned")
    => /\ grid.n_ghost_layers = locals.n_ghost_layers
       /\ LowGhostNodes = grid.n_ghost_layers
       /\ HighGhostNodes = grid.n_ghost_layers

(***************************************************************************)
(* C4                                                                      *)
(***************************************************************************)
\* the ghost-layer count the specification gives the configuration of a call
SpecGhostCount ==
    IF \E name \in FivePointLimiters : call.config.limiter \in Quoted(name)
    THEN 3 ELSE 2

AxisAsClaimed(axis, n, limits, g) ==
    /\ Len(axis) = n + 1 + 2 * g
    /\ axis[g + 1] = limits[1]
    /\ axis[n + g + 1] = limits[2]

\* C4: the x axis of make_1d_in_x_uniform_grid and both axes of
\* make_uniform_grid have n_cells + 1 + 2*g nodes, node g is the lower limit
\* and node n_cells + g the upper limit, g being the limiter's ghost count.
C4_UniformAxisNodes ==
    /\ (call.fn = "make_1d_in_x_uniform_grid" /\ pc = "returned")
       => /\ grid.n_ghost_layers = SpecGhostCount
          /\ AxisAsClaimed(XAxis, call.n_cells, call.limits, SpecGhostCount)
    /\ (call.fn = "make_uniform_grid" /\ pc = "returned")
       => /\ grid.n_ghost_layers = SpecGhostCount
          /\ AxisAsClaimed(XAxis, call.n_cells[1], call.xrange, SpecGhostCount)
          /\ AxisAsClaimed(YAxis, call.n_cells[2], call.yrange, SpecGhostCount)

C4_Witness ==
    /\ call.fn = "make_1d_in_x_uniform_grid"
    /\ call.config.limiter = <<"T", "V", "D", "3">>
    /\ call.n_cells = 3
    /\ pc = "returned"
    /\ grid.n_ghost_layers = 2
    /\ Len(XAxis) = 8

(***************************************************************************)
(* C5                                                                      *)
(***************************************************************************)
\* C5: in every returned grid xc, yc, rho, u, v and p have one shape, the
\* node mesh's shape less one in each dimension.
C5_CellArraysShape ==
    GridReturned
    => LET shp == <<Len(grid.x) - 1, Len(grid.x[1]) - 1>>
       IN  /\ Rectangular(grid.x, <<shp[1] + 1, shp[2] + 1>>)
           /\ Rectangular(grid.y, <<shp[1] + 1, shp[2] + 1>>)
           /\ \A a \in {grid.xc, grid.yc} : Rectangular(a, shp)
           /\ \A a \in {grid.rho, grid.u, grid.v, grid.p} : Rectangular(a, shp)

C5_Witness ==
    /\ call.fn = "make_1d_layered_grid"
    /\ Len(call.layer_thicknesses) = 3
    /\ pc = "returned"
    /\ shape(grid.rho) = <<Len(XAxis) - 1, 3>>
    /\ shape(grid.xc) = shape(grid.rho)

(***************************************************************************)
(* C6                                                                      *)
(***************************************************************************)
NLayers == Len(call.layer_thicknesses)

AllConstant ==
    \/ call.layer_spacing = <<>>
    \/ \A k \in 1..NLayers : call.layer_spacing[k] = "constant"

ConfigRecognized == call.config.has_limiter /\ NamesRecognized(call.config.limiter)

PositiveThicknesses ==
    \A k \in 1..NLayers : QLt(QZero, call.layer_thicknesses[k])

\* the sum of the first k layer thicknesses
CumThickness(k) == QSumSeq(SubSeq(call.layer_thicknesses, 1, k))

\* C6: when every layer uses constant spacing, the deduplicated partition
\* (before ghost padding) has sum(n_k) + 1 nodes and its last node minus its
\* first node is the total thickness.
C6_ConstantPartition ==
    (IsLayered /\ AllConstant /\ PositiveThicknesses /\ ConfigRecognized /\ pc # "called")
    => /\ locals.err = "none"
       /\ Len(locals.x) = SumSeq(call.layer_n_cells) + 1
       /\ QSub(Last(locals.x), locals.x[1]) = CumThickness(NLayers)

C6_Witness ==
    /\ call.fn = "make_2d_layered_grid"
    /\ call.layer_n_cells = <<1, 2, 1>>
    /\ call.layer_thicknesses = <<QInt(1), QInt(1), QInt(2)>>
    /\ AllConstant
    /\ pc = "partitioned"
    /\ Len(locals.x) = 5
    /\ Last(locals.x) = QInt(4)

(***************************************************************************)
(* C7                                                                      *)
(***************************************************************************)
\* cell (i, j) of the returned fields holds the material state of layer k
HoldsLayer(i, j, k) ==
    /\ grid.rho[i][j] = call.layer_density[k]
    /\ grid.u[i][j] = call.layer_u[k]
    /\ grid.v[i][j] = call.layer_v[k]
    /\ grid.p[i][j] = call.layer_pressure[k]

Cells == UNION {{<<i, j>> : j \in 1..Len(grid.rho[i])} : i \in 1..Len(grid.rho)}

\* C7: the returned xc of every cell that holds layer k's values lies in
\* [cum_thickness[k-1], cum_thickness[k]), the first layer bounded below by
\* the padded domain start and the last layer above by the padded domain end.
C7_CellCentersInsideLayer ==
    (IsLayered /\ pc = "returned")
    => \A cell \in Cells : \A k \in 1..NLayers :
           HoldsLayer(cell[1], cell[2], k)
           => LET c == grid.xc[cell[1]][cell[2]]
              IN  /\ IF k = 1 THEN QLe(XAxis[1], c) ELSE QLe(CumThickness(k - 1), c)
                  /\ IF k = NLayers THEN QLe(c, Last(XAxis))
                     ELSE QLt(c, CumThickness(k))

(***************************************************************************)
(* C8                                                                      *)
(***************************************************************************)
\* C8: in a returned layered grid every ghost cell at the low-x end holds the
\* first layer's state, every ghost cell at the high-x end the last layer's,
\* over the whole transverse dimension, and every cell holds some layer's
\* state (none keeps the zeros the arrays were allocated with).
C8_GhostCellsPainted ==
    (IsLayered /\ pc = "returned")
    => \A cell \in Cells :
           LET i == cell[1]
               j == cell[2]
           IN  /\ QLe(XAxis[i + 1], locals.x[1]) => HoldsLayer(i, j, 1)
               /\ QLe(Last(locals.x), XAxis[i]) => HoldsLayer(i, j, NLayers)
               /\ \E k \in 1..NLayers : HoldsLayer(i, j, k)

C8_Witness ==
    /\ call.fn = "make_2d_layered_grid"
    /\ NLayers = 3
    /\ call.layer_density = <<1, 2, 3>>
    /\ pc = "returned"
    /\ grid.n_ghost_layers = 3
    /\ \A i \in 1..3 : \A j \in 1..Len(grid.rho[i]) : HoldsLayer(i, j, 1)
    /\ \A i \in (Len(grid.rho) - 2)..Len(grid.rho) :
           \A j \in 1..Len(grid.rho[i]) : HoldsLayer(i, j, 3)

(***************************************************************************)
(* C9                                                                      *)
(***************************************************************************)
\* C9: in every returned grid each cell centre is the midpoint of the two
\* nodes that bound the cell, in x and in y.
C9_CentersAreMidpoints ==
    GridReturned
    => \A i \in 1..Len(grid.xc) : \A j \in 1..Len(grid.xc[i]) :
           /\ grid.xc[i][j] = Half(QAdd(grid.x[i][j], grid.x[i + 1][j]))
           /\ grid.yc[i][j] = Half(QAdd(grid.y[i][j], grid.y[i][j + 1]))

(***************************************************************************)
(* C10                                                                     *)
(***************************************************************************)
StrictlyIncreasing(x) == \A i \in 1..(Len(x) - 1) : QLt(x[i], x[i + 1])

\* C10: the deduplicated partition is strictly increasing, the nodes made for
\* layer k lie within [cum_thickness[k-1], cum_thickness[k]], and the span of
\* the partition is the sum of the layer thicknesses.
C10_PartitionWithinLayers ==
    (IsLayered /\ pc \in {"partitioned", "returned"})
    => /\ StrictlyIncreasing(locals.x)
       /\ \A k \in 1..Len(locals.total_x) : \A i \in 1..Len(locals.total_x[k]) :
              /\ QLe(CumThickness(k - 1), locals.total_x[k][i])
              /\ QLe(locals.total_x[k][i], CumThickness(k))
       /\ QSub(Last(locals.x), locals.x[1]) = CumThickness(NLayers)

(***************************************************************************)
(* C11                                                                     *)
(***************************************************************************)
FirstLayerLinear ==
    /\ IsLayered
    /\ call.layer_spacing # <<>>
    /\ call.layer_spacing[1] = "linear"

\* C11: when layer 0 requests linear spacing, the layered builders end in an
\* error and return no grid, whatever the other layers request; no partition
\* is left behind, and under a recognized limiter the error is the one of
\* the first-layer test.
C11_FirstLayerLinearRaises ==
    (FirstLayerLinear /\ pc # "called")
    => /\ pc = "raised"
       /\ locals = NoLocals
       /\ "value" \notin DOMAIN result
       /\ ConfigRecognized
          => result = RaiseMsg("Exception", first_layer_linear)

C11_Witness ==
    /\ FirstLayerLinear
    /\ NLayers = 3
    /\ call.layer_spacing[2] = "constant"
    /\ call.layer_spacing[3] = "linear"
    /\ pc = "raised"
    /\ result = RaiseMsg("Exception", first_layer_linear)

(***************************************************************************)
(* C12                                                                     *)
(***************************************************************************)
StartError == RaiseMsg("Exception", start_ge_max_dist)

\* C12: linear_spacing raises "start >= max_dist" and returns no node array
\* whenever start >= max_dist, and never raises when start < max_dist; a
\* layered builder in which this error is raised ends raised, with no grid
\* and no partition, and none does when every thickness is positive.
C12_StartCheck ==
    /\ (call.fn = "linear_spacing" /\ pc # "called")
       => IF QLe(call.max_dist, call.start)
          THEN /\ pc = "raised"
               /\ result = StartError
               /\ locals = NoLocals
          ELSE /\ pc # "raised"
               /\ result.err \in {"pending", "none"}
    /\ (IsLayered /\ result = StartError)
       => /\ pc = "raised"
          /\ locals = NoLocals
          /\ \E k \in 2..NLayers :
                /\ call.layer_spacing[k] = "linear"
                /\ QLe(call.layer_thicknesses[k], QZero)

C12_Witness ==
    /\ call.fn = "linear_spacing"
    /\ call.start = call.max_dist
    /\ QLt(QZero, call.initial_dx)
    /\ result = StartError

\* a layered builder does meet the error of linear_spacing
C12_BuilderMeetsError ==
    /\ call.fn = "make_2d_layered_grid"
    /\ result = StartError

(***************************************************************************)
(* C13                                                                     *)
(***************************************************************************)
EndsInH5OrHdf5(name) == endswith(name, dot_h5) \/ endswith(name, dot_hdf5)

\* C13: write_initial_hdf5 writes to the given name with ".h5" appended
\* exactly when the name ends in neither ".h5" nor ".hdf5"; a name that ends
\* in one of them is the output file name unchanged.
C13_SuffixOnlyWhenMissing ==
    (call.fn = "write_initial_hdf5" /\ pc = "returned")
    => result.value.filename = IF EndsInH5OrHdf5(call.filename) THEN call.filename
                                ELSE call.filename \o dot_h5

(***************************************************************************)
(* C14                                                                     *)
(***************************************************************************)
\* the cells of the uniform grid along x and y, ghost cells included
UniformCells ==
    LET g == result.value.n_ghost_layers
    IN  IF call.fn = "make_uniform_grid"
        THEN <<call.n_cells[1] + 2 * g, call.n_cells[2] + 2 * g>>
        ELSE <<call.n_cells + 2 * g, 2 * g + 1>>

\* C14: in every grid returned by make_uniform_grid or
\* make_1d_in_x_uniform_grid every element of rho, u, v and p, ghost cells
\* included, equals exactly 1.
C14_UniformFieldsAreOne ==
    (IsUniform /\ pc = "returned")
    => \A a \in {grid.rho, grid.u, grid.v, grid.p} :
           /\ shape(a) = UniformCells
           /\ \A i \in 1..Len(a) : \A j \in 1..Len(a[i]) : a[i][j] = 1

C14_Witness ==
    /\ call.fn = "make_uniform_grid"
    /\ call.n_cells = <<2, 3>>
    /\ pc = "returned"
    /\ grid.n_ghost_layers = 3
    /\ shape(grid.p) = <<8, 9>>
    /\ grid.p[1][9] = 1

(***************************************************************************)
(* C15                                                                     *)
(***************************************************************************)
RECURSIVE QPow(_, _)
QPow(q, n) == IF n = 0 THEN QInt(1) ELSE QMul(q, QPow(q, n - 1))

\* start < max_dist, initial_dx > 0 and scale >= 1
GeometricCall ==
    /\ call.fn = "linear_spacing"
    /\ QLt(call.start, call.max_dist)
    /\ QLt(QZero, call.initial_dx)
    /\ QLe(QInt(1), call.scale)

PaddedNodes ==
    IF call.fn = "make_2d_layered_grid" THEN layered_x_2d(locals.x, locals.n_ghost_layers)
    ELSE layered_x_1d(locals.x, locals.n_ghost_layers)

\* the coordinate range [lo, hi) of layer k: the first layer starts at the
\* first padded node, the last one ends at the last padded node
LayerRange(k) ==
    <<IF k = 1 THEN PaddedNodes[1] ELSE CumThickness(k - 1),
      IF k > 1 /\ k = NLayers THEN Last(PaddedNodes) ELSE CumThickness(k)>>

\* no search centre of the padded axis lies in the range of layer k
EmptyRange(k) ==
    LET xc == search_xc(PaddedNodes)
    IN  ~\E i \in 1..Len(xc) :
            QLe(LayerRange(k)[1], xc[i]) /\ QLt(xc[i], LayerRange(k)[2])

\* the builder has built its partition and has gone on to its end
Assembled == IsLayered /\ Finished /\ locals # NoLocals

SpacingOf(k) == IF call.layer_spacing = <<>> THEN "constant" ELSE call.layer_spacing[k]

FirstStep(x) == QSub(x[2], x[1])

LastStep(x) == QSub(x[Len(x)], x[Len(x) - 1])

\* the builder has built a partition with one node array for each layer
PartitionBuilt ==
    /\ IsLayered
    /\ locals # NoLocals
    /\ Len(locals.total_x) = NLayers

\* C18: for every layer k >= 1 with linear spacing, the first step of layer
\* k's nodes equals the width of the last cell of layer k-1, whether layer
\* k-1 used constant or linear spacing.
C18_FirstStepContinuesLastCell ==
    PartitionBuilt
    => \A k \in 2..NLayers :
           SpacingOf(k) = "linear"
           => FirstStep(locals.total_x[k]) = LastStep(locals.total_x[k - 1])

\* the same, where layer k-1 used constant spacing
FirstStepAfterConstantLayer ==
    PartitionBuilt
    => \A k \in 2..NLayers :
           (SpacingOf(k) = "linear" /\ SpacingOf(k - 1) = "constant")
           => FirstStep(locals.total_x[k]) = LastStep(locals.total_x[k - 1])

LoopVariant ==
    (GeometricCall /\ pc = "looping")
    => /\ QLe(Last(locals.x), call.max_dist)
       /\ QLe(QMul(QInt(Len(locals.x) - 1), call.initial_dx),
              QSub(Last(locals.x), call.start))

\* a call is left in its loop for good exactly when loop_never_breaks says so
LoopNeverBreaksIsExact ==
    (call.fn = "linear_spacing" /\ QLt(call.start, call.max_dist))
    => IF loop_never_breaks(call.start, call.initial_dx, call.scale, call.max_dist)
       THEN pc \in {"called", "looping"}
       ELSE ~(pc = "looping" /\ Len(locals.x) > MaxPasses)

====
